---- MODULE Spec2Model ----
(***************************************************************************)
(* A model of persian-date-utils (src/src/index.ts).                       *)
(*                                                                         *)
(* The library is a set of pure functions.  The state of the model is the  *)
(* caller's view of it: the last call made (operation, arguments, returned *)
(* value) and, when the arguments of that call were taken from the value   *)
(* returned by an earlier call, that earlier call.  A caller makes a call, *)
(* possibly feeds its result to a second call, and discards the values.    *)
(*                                                                         *)
(* Representation choices:                                                 *)
(*   - a JavaScript string is the sequence of its UTF-16 code units;       *)
(*   - a JavaScript Date is its time value counted in whole days since     *)
(*     1970-01-01 (in hours for getShamsiWeek, which reads the clock);     *)
(*     the host time zone is UTC, so local and UTC fields coincide;        *)
(*   - number | null | undefined results are tagged records.               *)
(***************************************************************************)
EXTENDS Integers, Sequences, FiniteSets, TLC

VARIABLES call, prev

vars == <<call, prev>>

(***************************************************************************)
(* Bounds of the inputs the model enumerates.                              *)
(***************************************************************************)
MaxBackYear == 40        \* Persian years from -MaxBackYear ...
MaxEarlyYear == 70       \* ... to MaxEarlyYear, and
MinShamsiYear == 1400    \* Persian years MinShamsiYear ..
MaxShamsiYear == 1404    \* .. MaxShamsiYear
AddYearSpan == 1         \* day arithmetic starts in the last AddYearSpan + 1 of them
MaxMonthBelow == 2       \* months -MaxMonthBelow ..
MaxMonthInput == 13      \* .. MaxMonthInput are passed to the day-count queries
MinGregYear == 2022      \* Gregorian years MinGregYear ..
MaxGregYear == 2025      \* .. MaxGregYear
EpochSpan == 1           \* Gregorian years 621-EpochSpan .. 621+EpochSpan
MaxDelta == 10000        \* largest number of days added or subtracted
MaxPieces == 3           \* a format pattern is made of at most MaxPieces pieces
MaxStrLen == 3           \* strings of at most MaxStrLen characters are transliterated

EarlyYears == (0 - MaxBackYear)..MaxEarlyYear
ModernYears == MinShamsiYear..MaxShamsiYear
ShamsiYears == EarlyYears \cup ModernYears
MonthInputs == (0 - MaxMonthBelow)..MaxMonthInput
GregYears == ((621 - EpochSpan)..(621 + EpochSpan)) \cup (MinGregYear..MaxGregYear)
AddYears == (MaxShamsiYear - AddYearSpan)..MaxShamsiYear
ClockYears == MinGregYear..MaxGregYear
DayDeltas == {0 - MaxDelta, -1, 0, 1, MaxDelta}
ClockHours == {0, 12, 23}

\* the characters of the strings to transliterate: the Persian digits zero, five
\* and nine, the characters next to their range (U+06EF, U+06FA), the
\* Arabic-Indic zero, and "0", "7", "/"
DigitChars == {1776, 1781, 1785, 1775, 1786, 1632, 48, 55, 47}

RECURSIVE StringsUpTo(_)
StringsUpTo(n) ==
    IF n = 0 THEN {<<>>}
    ELSE LET shorter == StringsUpTo(n - 1)
         IN  shorter \cup {str \o <<c>> : str \in shorter, c \in DigitChars}

\* the pieces of the format patterns: the eight tokens, "/", "M" and the Persian
\* digit four
PatternPieces ==
    { <<89, 89, 89, 89>>, <<77, 77>>, <<68, 68>>, <<77, 111, 110, 116, 104>>,
      <<87, 101, 101, 107, 100, 97, 121>>, <<72, 72>>, <<109, 109>>, <<115, 115>>,
      <<47>>, <<77>>, <<1780>> }

RECURSIVE PiecePatterns(_)
PiecePatterns(n) ==
    IF n = 0 THEN {<<>>}
    ELSE LET shorter == PiecePatterns(n - 1)
         IN  shorter \cup {p \o q : p \in shorter, q \in PatternPieces}

\* "YYYY/MM/DD"
DocumentedPattern == <<89, 89, 89, 89, 47, 77, 77, 47, 68, 68>>

FormatPatterns == PiecePatterns(MaxPieces) \cup {DocumentedPattern}

\* year, month, day, hour, minute, second (0, 0, 0 when they are left out)
FormatInputs == {<<1403, 1, 1, 0, 0, 0>>, <<1403, 11, 25, 13, 5, 59>>}

(***************************************************************************)
(* JavaScript values.                                                      *)
(***************************************************************************)
Num(n) == [kind |-> "number", value |-> n]
Null == [kind |-> "null"]
Undefined == [kind |-> "undefined"]
NaN == [kind |-> "NaN"]

\* a % b of JavaScript for integers, b > 0: the remainder takes the sign of a
JsRem(a, b) == IF a >= 0 THEN a % b ELSE 0 - ((0 - a) % b)

\* array[i] of JavaScript, 0-indexed: undefined outside the array
JsIndex(arr, i) == IF i >= 0 /\ i < Len(arr) THEN Num(arr[i + 1]) ELSE Undefined

RECURSIVE NatStr(_)
NatStr(n) == IF n < 10 THEN <<48 + n>> ELSE NatStr(n \div 10) \o <<48 + (n % 10)>>

\* String(n), `${n}` and n.toString() for an integer n
NumStr(n) == IF n < 0 THEN <<45>> \o NatStr(0 - n) ELSE NatStr(n)

(***************************************************************************)
(* convertToLatinDigits                                                    *)
(***************************************************************************)
\* /[۰-۹]/ matches the code units U+06F0 (1776) .. U+06F9 (1785)
IsPersianDigit(c) == c >= 1776 /\ c <= 1785

\* the regular expression without its g flag: the first match only
convertToLatinDigitsFirstOnly(str) ==
    LET hits == {i \in 1..Len(str) : IsPersianDigit(str[i])}
    IN  [i \in 1..Len(str) |->
            IF i \in hits /\ (\A j \in hits : i <= j) THEN str[i] - 1728 ELSE str[i]]

convertToLatinDigits(str) ==
    [i \in 1..Len(str) |-> IF IsPersianDigit(str[i]) THEN str[i] - 1728 ELSE str[i]]

(***************************************************************************)
(* isShamsiLeapYear, getShamsiDaysInMonth, getShamsiMonthDays,             *)
(* getShamsiYearDays                                                       *)
(***************************************************************************)
isShamsiLeapYear(year) ==
    \/ JsRem(year, 33) = 0
    \/ JsRem(year, 33) \in {4, 8, 12, 16, 20, 24, 28}

regularYearDaysInMonths == <<31, 31, 31, 30, 31, 30, 31, 31, 30, 31, 30, 30>>
leapYearDaysInMonths == <<31, 31, 31, 30, 31, 30, 31, 31, 30, 31, 30, 29>>

getShamsiDaysInMonth(month, year) ==
    LET months == IF isShamsiLeapYear(year) THEN leapYearDaysInMonths
                  ELSE regularYearDaysInMonths
    IN  JsIndex(months, month - 1)

\* the two tables exchanged
getShamsiMonthDaysSwapped(month, year) ==
    IF month < 1 \/ month > 12 THEN Null
    ELSE IF isShamsiLeapYear(year)
         THEN JsIndex(regularYearDaysInMonths, month - 1)
         ELSE JsIndex(leapYearDaysInMonths, month - 1)

\* the month is not validated
getShamsiMonthDaysUnchecked(month, year) ==
    IF isShamsiLeapYear(year)
    THEN JsIndex(leapYearDaysInMonths, month - 1)
    ELSE JsIndex(regularYearDaysInMonths, month - 1)

getShamsiMonthDays(month, year) ==
    IF month < 1 \/ month > 12 THEN Null
    ELSE IF isShamsiLeapYear(year)
         THEN JsIndex(leapYearDaysInMonths, month - 1)
         ELSE JsIndex(regularYearDaysInMonths, month - 1)

getShamsiYearDays(year) == IF isShamsiLeapYear(year) THEN 366 ELSE 365

(***************************************************************************)
(* The Date object of JavaScript (ECMAScript MakeDay, YearFromTime,        *)
(* MonthFromTime, DateFromTime), in whole days since 1970-01-01.           *)
(***************************************************************************)
\* MakeDay(year, month, date): month is 0-based and may overflow, so may date
MakeDay(year, monthIndex, date) ==
    LET ym == year + (monthIndex \div 12)
        mn == (monthIndex % 12) + 1
        y == IF mn <= 2 THEN ym - 1 ELSE ym
        era == y \div 400
        yoe == y - era * 400
        mp == IF mn > 2 THEN mn - 3 ELSE mn + 9
        doy == (153 * mp + 2) \div 5
        doe == yoe * 365 + (yoe \div 4) - (yoe \div 100) + doy
    IN  era * 146097 + doe - 719468 + (date - 1)

\* the year, month (1..12) and day of the month of time value t
CivilFromDays(t) ==
    LET z == t + 719468
        era == z \div 146097
        doe == z - era * 146097
        yoe == (doe - (doe \div 1460) + (doe \div 36524) - (doe \div 146096)) \div 365
        doy == doe - (365 * yoe + (yoe \div 4) - (yoe \div 100))
        mp == (5 * doy + 2) \div 153
        d == doy - ((153 * mp + 2) \div 5) + 1
        m == IF mp < 10 THEN mp + 3 ELSE mp - 9
        y == yoe + era * 400 + (IF m <= 2 THEN 1 ELSE 0)
    IN  [year |-> y, month |-> m, day |-> d]

\* new Date(year, monthIndex, day): a year in 0..99 means 1900 + year
NewDate(year, monthIndex, day) ==
    MakeDay(IF year >= 0 /\ year <= 99 THEN 1900 + year ELSE year, monthIndex, day)

getFullYear(t) == CivilFromDays(t).year
getMonth(t) == CivilFromDays(t).month - 1
getDate(t) == CivilFromDays(t).day

\* date.setDate(dt)
setDate(t, dt) == MakeDay(getFullYear(t), getMonth(t), dt)

\* date.setFullYear(y): month and day of the month are kept
setFullYear(t, y) == MakeDay(y, getMonth(t), getDate(t))

IsDigit(c) == c >= 48 /\ c <= 57

\* new Date(str) for a date-only ISO string "YYYY-MM-DD" (UTC midnight of that
\* day); a string of that form naming no date gives an invalid Date (NaN).  Any
\* other string is parsed in an implementation-defined way and is not modelled.
IsIsoDateForm(str) ==
    /\ Len(str) = 10
    /\ str[5] = 45 /\ str[8] = 45
    /\ \A i \in {1, 2, 3, 4, 6, 7, 9, 10} : IsDigit(str[i])

ParseIsoDate(str) ==
    LET y == (str[1] - 48) * 1000 + (str[2] - 48) * 100 + (str[3] - 48) * 10 + (str[4] - 48)
        m == (str[6] - 48) * 10 + (str[7] - 48)
        d == (str[9] - 48) * 10 + (str[10] - 48)
        t == MakeDay(y, m - 1, d)
    IN  IF m >= 1 /\ m <= 12 /\ d >= 1 /\ CivilFromDays(t) = [year |-> y, month |-> m, day |-> d]
        THEN Num(t) ELSE NaN

(***************************************************************************)
(* convertGregorianToShamsi, padZero, convertShamsiToGregorian             *)
(***************************************************************************)
padZero(num) == IF num < 10 THEN <<48>> \o NumStr(num) ELSE NumStr(num)

\* q * 365.2422 <= d, compared exactly: q * 2422 <= (d - 365 * q) * 10000
TropicalLeq(q, d) ==
    LET e == d - 365 * q
    IN  IF e >= 100000 THEN TRUE
        ELSE IF e <= -100000 THEN FALSE
        ELSE q * 2422 <= e * 10000

\* Math.floor(d / 365.2422)
FloorDivTropical(d) ==
    CHOOSE q \in ((d \div 365) - 2)..((d \div 365) + 2) :
        TropicalLeq(q, d) /\ ~TropicalLeq(q + 1, d)

\* the loop over the twelve months: from month index i with `rest` days left,
\* the record of persianMonth and persianDay it ends with
RECURSIVE MonthWalk(_, _, _)
MonthWalk(monthsInYear, i, rest) ==
    IF i >= 12 THEN [month |-> 1, day |-> 0]
    ELSE IF rest < monthsInYear[i + 1] THEN [month |-> i + 1, day |-> rest + 1]
    ELSE MonthWalk(monthsInYear, i + 1, rest - monthsInYear[i + 1])

\* persianYear, persianMonth and persianDay at the return statement
ShamsiParts(year, month, day) ==
    LET gregorianDate == NewDate(year, month - 1, day)
        startDate == NewDate(621, 2, 21)
        daysDifference == gregorianDate - startDate
        persianYear == 621 + FloorDivTropical(daysDifference)
        daysInPersianYear == JsRem(daysDifference, 365)
        monthsInYear == IF isShamsiLeapYear(persianYear) THEN leapYearDaysInMonths
                        ELSE regularYearDaysInMonths
        w == MonthWalk(monthsInYear, 0, daysInPersianYear)
    IN  [year |-> persianYear, month |-> w.month, day |-> w.day]

convertGregorianToShamsi(year, month, day) ==
    LET p == ShamsiParts(year, month, day)
    IN  NumStr(p.year) \o <<47>> \o padZero(p.month) \o <<47>> \o padZero(p.day)

RECURSIVE SumBefore(_, _)
SumBefore(monthsInYear, n) ==
    IF n <= 0 THEN 0
    ELSE SumBefore(monthsInYear, n - 1) + monthsInYear[n]

\* totalDays of convertShamsiToGregorian
ShamsiTotalDays(year, month, day) ==
    LET monthsInYear == IF isShamsiLeapYear(year) THEN leapYearDaysInMonths
                        ELSE regularYearDaysInMonths
        daysInPersianYear == SumBefore(monthsInYear, month - 1) + (day - 1)
    IN  (year - 1) * 365 + ((year - 1) \div 33) + daysInPersianYear

convertShamsiToGregorian(year, month, day) ==
    LET startDate == NewDate(621, 2, 21)
        gregorianDate == startDate + ShamsiTotalDays(year, month, day)
    IN  NumStr(getFullYear(gregorianDate)) \o <<45>>
            \o padZero(getMonth(gregorianDate) + 1) \o <<45>>
            \o padZero(getDate(gregorianDate))

(***************************************************************************)
(* addShamsiDays, subtractShamsiDays                                       *)
(***************************************************************************)
\* defined where new Date(gregorianDate) is: see IsIsoDateForm
addShamsiDays(year, month, day, daysToAdd) ==
    LET gregorianDate == convertShamsiToGregorian(year, month, day)
        date == ParseIsoDate(gregorianDate).value
        moved == setDate(date, getDate(date) + daysToAdd)
    IN  convertGregorianToShamsi(getFullYear(moved), getMonth(moved) + 1, getDate(moved))

subtractShamsiDays(year, month, day, daysToSubtract) ==
    addShamsiDays(year, month, day, 0 - daysToSubtract)

AddableDate(year, month, day) ==
    LET gregorianDate == convertShamsiToGregorian(year, month, day)
    IN  IsIsoDateForm(gregorianDate) /\ ParseIsoDate(gregorianDate) # NaN

(***************************************************************************)
(* getShamsiWeek, getPersianNewYearDate.  The clock reading `now` and the  *)
(* Date values are counted in hours since 1970-01-01T00:00.                *)
(***************************************************************************)
getPersianNewYearDate(year) == NewDate(year, 2, 21) * 24

getShamsiWeek(now) ==
    LET nowYear == getFullYear(now \div 24)
        newYear == getPersianNewYearDate(nowYear)
        persianNewYear == IF now < newYear
                          THEN setFullYear(newYear \div 24, nowYear - 1) * 24
                               + (newYear % 24)
                          ELSE newYear
        daysSinceStartOfYear == (now - persianNewYear) \div 24
        weekNumber == 0 - ((0 - daysSinceStartOfYear) \div 7)
    IN  convertToLatinDigits(NumStr(weekNumber))

(***************************************************************************)
(* What a caller does with a returned date string: split(sep).map(Number)  *)
(***************************************************************************)
RECURSIVE Split(_, _)
Split(str, sep) ==
    IF \A i \in 1..Len(str) : str[i] # sep THEN <<str>>
    ELSE LET k == CHOOSE i \in 1..Len(str) :
                      str[i] = sep /\ \A j \in 1..(i - 1) : str[j] # sep
         IN  <<SubSeq(str, 1, k - 1)>> \o Split(SubSeq(str, k + 1, Len(str)), sep)

RECURSIVE DigitsValue(_)
DigitsValue(str) ==
    IF str = <<>> THEN 0
    ELSE DigitsValue(SubSeq(str, 1, Len(str) - 1)) * 10 + (str[Len(str)] - 48)

\* Number(str) for the strings the conversions build: digits with an optional sign
ToNumber(str) ==
    IF \A i \in 1..Len(str) : IsDigit(str[i]) THEN Num(DigitsValue(str))
    ELSE IF Len(str) >= 2 /\ str[1] \in {43, 45} /\ \A i \in 2..Len(str) : IsDigit(str[i])
         THEN Num((IF str[1] = 45 THEN -1 ELSE 1) * DigitsValue(Tail(str)))
    ELSE NaN

ParseDate(str, sep) ==
    LET parts == Split(str, sep) IN [i \in 1..Len(parts) |-> ToNumber(parts[i])]

IsDateTriple(nums) == Len(nums) = 3 /\ \A i \in 1..3 : nums[i].kind = "number"

(***************************************************************************)
(* convertToGregorianDate                                                  *)
(***************************************************************************)
\* String(n).padStart(2, '0')
PadStart2(str) == IF Len(str) < 2 THEN [i \in 1..(2 - Len(str)) |-> 48] \o str ELSE str

\* defined where the three components of persianDate are numbers
convertToGregorianDate(persianDate) ==
    LET parts == ParseDate(persianDate, 47)
        year == parts[1].value
        month == parts[2].value
        day == parts[3].value
        persianNewYear == NewDate(year, 2, 21)
        isLeapYear == JsRem(year, 4) = 3
        daysInPersianMonth == IF isLeapYear THEN leapYearDaysInMonths
                              ELSE regularYearDaysInMonths
        totalDays == SumBefore(daysInPersianMonth, month - 1) + day
        gregorianStart == NewDate(getFullYear(persianNewYear), 2, 21)
        gregorianDate == gregorianStart + totalDays
        gYear == getFullYear(gregorianDate)
        gMonth == PadStart2(NumStr(getMonth(gregorianDate) + 1))
        gDay == PadStart2(NumStr(getDate(gregorianDate)))
    IN  gMonth \o <<47>> \o gDay \o <<47>> \o NumStr(gYear)

\* a Persian date written "YYYY/MM/DD", as the callers of the library pass it
ShamsiDateString(year, month, day) ==
    NumStr(year) \o <<47>> \o padZero(month) \o <<47>> \o padZero(day)

(***************************************************************************)
(* getShamsiWeekdayName, formatShamsiDate                                  *)
(***************************************************************************)
\* the index of the first occurrence of searchValue in str, 0 when there is none
FirstIndex(str, searchValue) ==
    LET n == Len(searchValue)
        hits == {i \in 1..(Len(str) - n + 1) : SubSeq(str, i, i + n - 1) = searchValue}
    IN  IF hits = {} THEN 0 ELSE CHOOSE i \in hits : \A j \in hits : i <= j

\* every occurrence is replaced, left to right
RECURSIVE ReplaceEvery(_, _, _)
ReplaceEvery(str, searchValue, replaceValue) ==
    LET k == FirstIndex(str, searchValue)
    IN  IF k = 0 THEN str
        ELSE SubSeq(str, 1, k - 1) \o replaceValue
                 \o ReplaceEvery(SubSeq(str, k + Len(searchValue), Len(str)),
                                 searchValue, replaceValue)

\* str.replace(searchValue, replaceValue) with a string searchValue: the first
\* occurrence only (replaceValue holds no "$" here, so it is taken literally)
ReplaceFirst(str, searchValue, replaceValue) ==
    LET k == FirstIndex(str, searchValue)
    IN  IF k = 0 THEN str
        ELSE SubSeq(str, 1, k - 1) \o replaceValue
                 \o SubSeq(str, k + Len(searchValue), Len(str))

\* the string a replaceValue becomes: undefined is written "undefined"
ReplaceValue(v) == IF v = Undefined THEN <<117, 110, 100, 101, 102, 105, 110, 101, 100>> ELSE v

\* date.getDay(): 0 is Sunday; 1970-01-01 was a Thursday
getDay(t) == (t + 4) % 7

monthNames ==
    << <<1601, 1585, 1608, 1585, 1583, 1740, 1606>>,
       <<1575, 1585, 1583, 1740, 1576, 1607, 1588, 1578>>,
       <<1582, 1585, 1583, 1575, 1583>>,
       <<1578, 1740, 1585>>,
       <<1605, 1585, 1583, 1575, 1583>>,
       <<1588, 1607, 1585, 1740, 1608, 1585>>,
       <<1605, 1607, 1585>>,
       <<1570, 1576, 1575, 1606>>,
       <<1570, 1584, 1585>>,
       <<1583, 1740>>,
       <<1576, 1607, 1605, 1606>>,
       <<1575, 1587, 1601, 1606, 1583>> >>

weekdays ==
    << <<1588, 1606, 1576, 1607>>,
       <<1740, 1705, 1588, 1606, 1576, 1607>>,
       <<1583, 1608, 1588, 1606, 1576, 1607>>,
       <<1587, 1607, 8204, 1588, 1606, 1576, 1607>>,
       <<1670, 1607, 1575, 1585, 1588, 1606, 1576, 1607>>,
       <<1662, 1606, 1580, 1588, 1606, 1576, 1607>>,
       <<1580, 1605, 1593, 1607>> >>

\* array[i] for an array of strings
JsIndexStr(arr, i) == IF i >= 0 /\ i < Len(arr) THEN arr[i + 1] ELSE Undefined

\* defined where new Date(gregorianDate) is: see IsIsoDateForm
getShamsiWeekdayName(year, month, day) ==
    LET gregorianDate == convertShamsiToGregorian(year, month, day)
        date == ParseIsoDate(gregorianDate)
    IN  IF date = NaN THEN Undefined ELSE JsIndexStr(weekdays, getDay(date.value))

pad(value) == IF value < 10 THEN <<48>> \o NumStr(value) ELSE NumStr(value)

formatShamsiDate(pattern, year, month, day, hour, minute, second) ==
    LET persianYear == NumStr(year)
        persianMonth == pad(month)
        persianDay == pad(day)
        persianMonthName == JsIndexStr(monthNames, month - 1)
        persianWeekday == getShamsiWeekdayName(year, month, day)
        persianHour == pad(hour)
        persianMinute == pad(minute)
        persianSecond == pad(second)
        r1 == ReplaceFirst(pattern, <<89, 89, 89, 89>>, persianYear)
        r2 == ReplaceFirst(r1, <<77, 77>>, persianMonth)
        r3 == ReplaceFirst(r2, <<68, 68>>, persianDay)
        r4 == ReplaceFirst(r3, <<77, 111, 110, 116, 104>>, ReplaceValue(persianMonthName))
        r5 == ReplaceFirst(r4, <<87, 101, 101, 107, 100, 97, 121>>, ReplaceValue(persianWeekday))
        r6 == ReplaceFirst(r5, <<72, 72>>, persianHour)
        r7 == ReplaceFirst(r6, <<109, 109>>, persianMinute)
        formattedDate == ReplaceFirst(r7, <<115, 115>>, persianSecond)
    IN  convertToLatinDigits(formattedDate)

(***************************************************************************)
(* The caller.                                                             *)
(***************************************************************************)
NoCall == [op |-> "none", args |-> <<>>, ret |-> Undefined]

Init ==
    /\ call = NoCall
    /\ prev = NoCall

CallIsShamsiLeapYear ==
    /\ call = NoCall
    /\ \E year \in ShamsiYears :
           /\ call' = [op |-> "isShamsiLeapYear", args |-> <<year>>,
                       ret |-> isShamsiLeapYear(year)]
           /\ prev' = NoCall

CallGetShamsiDaysInMonth ==
    /\ call = NoCall
    /\ \E month \in MonthInputs, year \in ShamsiYears :
           /\ call' = [op |-> "getShamsiDaysInMonth", args |-> <<month, year>>,
                       ret |-> getShamsiDaysInMonth(month, year)]
           /\ prev' = NoCall

CallGetShamsiMonthDays ==
    /\ call = NoCall
    /\ \E month \in MonthInputs, year \in ShamsiYears :
           /\ call' = [op |-> "getShamsiMonthDays", args |-> <<month, year>>,
                       ret |-> getShamsiMonthDays(month, year)]
           /\ prev' = NoCall

CallGetShamsiYearDays ==
    /\ call = NoCall
    /\ \E year \in ShamsiYears :
           /\ call' = [op |-> "getShamsiYearDays", args |-> <<year>>,
                       ret |-> Num(getShamsiYearDays(year))]
           /\ prev' = NoCall

\* the valid Persian dates of a set of years
ShamsiDates(years) ==
    {d \in years \X (1..12) \X (1..31) : d[3] <= getShamsiMonthDays(d[2], d[1]).value}

\* the Gregorian dates of a set of years
GregorianDates(years) ==
    {d \in years \X (1..12) \X (1..31) :
        getDate(MakeDay(d[1], d[2] - 1, d[3])) = d[3]}

CallConvertShamsiToGregorian ==
    /\ call = NoCall
    /\ \E d \in ShamsiDates(ModernYears) :
           /\ call' = [op |-> "convertShamsiToGregorian", args |-> d,
                       ret |-> convertShamsiToGregorian(d[1], d[2], d[3])]
           /\ prev' = NoCall

CallConvertGregorianToShamsi ==
    /\ call = NoCall
    /\ \E d \in GregorianDates(GregYears) :
           /\ call' = [op |-> "convertGregorianToShamsi", args |-> d,
                       ret |-> convertGregorianToShamsi(d[1], d[2], d[3])]
           /\ prev' = NoCall

\* the date returned by convertShamsiToGregorian is converted back
CallConvertBack ==
    /\ call.op = "convertShamsiToGregorian"
    /\ prev = NoCall
    /\ LET g == ParseDate(call.ret, 45)
       IN  /\ IsDateTriple(g)
           /\ call' = [op |-> "convertGregorianToShamsi",
                       args |-> <<g[1].value, g[2].value, g[3].value>>,
                       ret |-> convertGregorianToShamsi(g[1].value, g[2].value, g[3].value)]
           /\ prev' = call

CallAddShamsiDays ==
    /\ call = NoCall
    /\ \E d \in ShamsiDates(AddYears), n \in DayDeltas :
           /\ AddableDate(d[1], d[2], d[3])
           /\ call' = [op |-> "addShamsiDays", args |-> d \o <<n>>,
                       ret |-> addShamsiDays(d[1], d[2], d[3], n)]
           /\ prev' = NoCall

CallSubtractShamsiDays ==
    /\ call = NoCall
    /\ \E d \in ShamsiDates(AddYears), n \in DayDeltas :
           /\ AddableDate(d[1], d[2], d[3])
           /\ call' = [op |-> "subtractShamsiDays", args |-> d \o <<n>>,
                       ret |-> subtractShamsiDays(d[1], d[2], d[3], n)]
           /\ prev' = NoCall

\* the date returned by addShamsiDays is moved again by addShamsiDays
CallAddAgain ==
    /\ call.op = "addShamsiDays"
    /\ prev = NoCall
    /\ LET p == ParseDate(call.ret, 47)
       IN  /\ IsDateTriple(p)
           /\ AddableDate(p[1].value, p[2].value, p[3].value)
           /\ \E n \in DayDeltas :
                  /\ call' = [op |-> "addShamsiDays",
                              args |-> <<p[1].value, p[2].value, p[3].value, n>>,
                              ret |-> addShamsiDays(p[1].value, p[2].value, p[3].value, n)]
                  /\ prev' = call

\* the date returned by addShamsiDays is moved back by subtractShamsiDays
CallSubtractAgain ==
    /\ call.op = "addShamsiDays"
    /\ prev = NoCall
    /\ LET p == ParseDate(call.ret, 47)
       IN  /\ IsDateTriple(p)
           /\ AddableDate(p[1].value, p[2].value, p[3].value)
           /\ \E n \in DayDeltas :
                  /\ call' = [op |-> "subtractShamsiDays",
                              args |-> <<p[1].value, p[2].value, p[3].value, n>>,
                              ret |-> subtractShamsiDays(p[1].value, p[2].value, p[3].value, n)]
                  /\ prev' = call

\* getShamsiWeek reads the clock: now is any hour of ClockHours of any day
CallGetShamsiWeek ==
    /\ call = NoCall
    /\ \E d \in GregorianDates(ClockYears), h \in ClockHours :
           LET now == MakeDay(d[1], d[2] - 1, d[3]) * 24 + h
           IN  /\ call' = [op |-> "getShamsiWeek", args |-> <<now>>,
                           ret |-> getShamsiWeek(now)]
               /\ prev' = NoCall

CallConvertToGregorianDate ==
    /\ call = NoCall
    /\ \E d \in ShamsiDates(ModernYears) :
           LET persianDate == ShamsiDateString(d[1], d[2], d[3])
           IN  /\ IsDateTriple(ParseDate(persianDate, 47))
               /\ call' = [op |-> "convertToGregorianDate", args |-> <<persianDate>>,
                           ret |-> convertToGregorianDate(persianDate)]
               /\ prev' = NoCall

CallFormatShamsiDate ==
    /\ call = NoCall
    /\ \E pattern \in FormatPatterns, d \in FormatInputs :
           /\ AddableDate(d[1], d[2], d[3])
           /\ call' = [op |-> "formatShamsiDate", args |-> <<pattern>> \o d,
                       ret |-> formatShamsiDate(pattern, d[1], d[2], d[3], d[4], d[5], d[6])]
           /\ prev' = NoCall

CallConvertToLatinDigits ==
    /\ call = NoCall
    /\ \E str \in StringsUpTo(MaxStrLen) :
           /\ call' = [op |-> "convertToLatinDigits", args |-> <<str>>,
                       ret |-> convertToLatinDigits(str)]
           /\ prev' = NoCall

\* the string returned by convertToLatinDigits is transliterated again
CallConvertToLatinDigitsAgain ==
    /\ call.op = "convertToLatinDigits"
    /\ prev = NoCall
    /\ call' = [op |-> "convertToLatinDigits", args |-> <<call.ret>>,
                ret |-> convertToLatinDigits(call.ret)]
    /\ prev' = call

\* the valid Persian date that follows a valid Persian date in calendar order
NextShamsiDate(d) ==
    IF d[3] < getShamsiMonthDays(d[2], d[1]).value THEN <<d[1], d[2], d[3] + 1>>
    ELSE IF d[2] < 12 THEN <<d[1], d[2] + 1, 1>>
    ELSE <<d[1] + 1, 1, 1>>

\* after a valid Persian date, the date that follows it is converted
CallConvertNextDay ==
    /\ call.op = "convertShamsiToGregorian"
    /\ prev = NoCall
    /\ LET q == NextShamsiDate(call.args)
       IN  /\ call' = [op |-> "convertShamsiToGregorian", args |-> q,
                       ret |-> convertShamsiToGregorian(q[1], q[2], q[3])]
           /\ prev' = call

\* the caller is done with the values of the last call
Discard ==
    /\ call # NoCall
    /\ call' = NoCall
    /\ prev' = NoCall

Next ==
    \/ CallIsShamsiLeapYear
    \/ CallGetShamsiDaysInMonth
    \/ CallGetShamsiMonthDays
    \/ CallGetShamsiYearDays
    \/ CallConvertShamsiToGregorian
    \/ CallConvertGregorianToShamsi
    \/ CallConvertBack
    \/ CallAddShamsiDays
    \/ CallSubtractShamsiDays
    \/ CallAddAgain
    \/ CallSubtractAgain
    \/ CallGetShamsiWeek
    \/ CallConvertToGregorianDate
    \/ CallFormatShamsiDate
    \/ CallConvertToLatinDigits
    \/ CallConvertToLatinDigitsAgain
    \/ CallConvertNextDay
    \/ Discard

Spec == Init /\ [][Next]_vars

(***************************************************************************)
(* Properties.                                                             *)
(***************************************************************************)
NumTriple(y, m, d) == <<Num(y), Num(m), Num(d)>>

\* C1: round trip.  When the year, month and day returned by
\* convertShamsiToGregorian(y, m, d) for a valid Persian date are passed to
\* convertGregorianToShamsi, the date it returns is (y, m, d) again.
C1_RoundTrip ==
    (call.op = "convertGregorianToShamsi" /\ prev.op = "convertShamsiToGregorian")
        => ParseDate(call.ret, 47) = NumTriple(prev.args[1], prev.args[2], prev.args[3])

\* C2: convertShamsiToGregorian(1403, 1, 1) returns "2024-03-20".
C2_Nowruz1403 ==
    (call.op = "convertShamsiToGregorian" /\ call.args = <<1403, 1, 1>>)
        => call.ret = <<50, 48, 50, 52, 45, 48, 51, 45, 50, 48>>

\* C3: isShamsiLeapYear(1403) returns true and isShamsiLeapYear(1402) returns
\* false.
C3_LeapReference ==
    call.op = "isShamsiLeapYear"
        => /\ call.args = <<1403>> => call.ret = TRUE
           /\ call.args = <<1402>> => call.ret = FALSE

\* the sum of getShamsiMonthDays(m, year) over the months 1..12
MonthDaysSum(year) == SumBefore([m \in 1..12 |-> getShamsiMonthDays(m, year).value], 12)

\* C4: the month lengths of a year, as getShamsiMonthDays gives them, add up to
\* 366 for a leap year and to 365 for a common year, that is to
\* getShamsiYearDays(year).
C4_MonthLengthSum ==
    call.op = "getShamsiYearDays"
        => /\ MonthDaysSum(call.args[1]) = call.ret.value
           /\ MonthDaysSum(call.args[1])
                  = (IF isShamsiLeapYear(call.args[1]) THEN 366 ELSE 365)

\* C5: getShamsiMonthDays and getShamsiDaysInMonth return 31 for the months
\* 1..6, 30 for the months 7..11, and 29 or 30 for month 12.
C5_MonthLengthPattern ==
    (call.op \in {"getShamsiMonthDays", "getShamsiDaysInMonth"} /\ call.args[1] \in 1..12)
        => /\ call.args[1] \in 1..6 => call.ret = Num(31)
           /\ call.args[1] \in 7..11 => call.ret = Num(30)
           /\ call.args[1] = 12 => call.ret \in {Num(29), Num(30)}

\* C6: for a month in 1..12, getShamsiMonthDays and getShamsiDaysInMonth both
\* return the (month-1)-indexed entry of [31,31,31,30,31,30,31,31,30,31,30,30]
\* for a year that is not leap, and of the same table ending in 29 for a leap
\* year; month 12 gives 29 for a leap year and 30 for a common year.
C6_TableLookup ==
    (call.op \in {"getShamsiMonthDays", "getShamsiDaysInMonth"} /\ call.args[1] \in 1..12)
        => LET month == call.args[1]
               leap == isShamsiLeapYear(call.args[2])
               common == <<31, 31, 31, 30, 31, 30, 31, 31, 30, 31, 30, 30>>
           IN  /\ call.ret.kind = "number"
               /\ month < 12 => call.ret.value = common[month]
               /\ (month = 12 /\ leap) => call.ret.value = 29
               /\ (month = 12 /\ ~leap) => call.ret.value = 30

\* C6 happens: month 12 of a leap year was asked of getShamsiMonthDays, and 29
\* came back
C6_Witness ==
    /\ call.op = "getShamsiMonthDays"
    /\ call.args[1] = 12
    /\ isShamsiLeapYear(call.args[2])
    /\ call.ret = Num(29)

\* C7: isShamsiLeapYear(year) equals isShamsiLeapYear(year + 33) for every
\* integer year, zero and negative years included.
C7_LeapPeriodicity ==
    call.op = "isShamsiLeapYear" => call.ret = isShamsiLeapYear(call.args[1] + 33)

\* C8: moving a valid Persian date by n days with addShamsiDays and moving the
\* result by -n days (addShamsiDays with -n, or subtractShamsiDays with n)
\* returns the date started from.
C8_AddInvertible ==
    (/\ prev.op = "addShamsiDays"
     /\ \/ call.op = "addShamsiDays" /\ call.args[4] = 0 - prev.args[4]
        \/ call.op = "subtractShamsiDays" /\ call.args[4] = prev.args[4])
        => ParseDate(call.ret, 47) = NumTriple(prev.args[1], prev.args[2], prev.args[3])

\* C9: the Persian date convertGregorianToShamsi produces has its month in
\* 1..12 and its day in 1..getShamsiMonthDays(month, year), for Gregorian dates
\* after and before the epoch anchor 621-03-21.
C9_ValidShamsiDate ==
    call.op = "convertGregorianToShamsi"
        => LET p == ShamsiParts(call.args[1], call.args[2], call.args[3])
           IN  /\ p.month \in 1..12
               /\ p.day >= 1
               /\ p.day <= getShamsiMonthDays(p.month, p.year).value

\* C10: getShamsiWeek returns a week number between 1 and 52.
C10_WeekRange ==
    call.op = "getShamsiWeek" => call.ret \in {NumStr(w) : w \in 1..52}

\* C11: convertToGregorianDate, given a Persian date "YYYY/MM/DD", returns
\* the Gregorian date as a string "YYYY-MM-DD"; for "1402/10/28" it returns
\* "2024-01-17".
C11_GregorianDateString ==
    call.op = "convertToGregorianDate"
        => /\ IsIsoDateForm(call.ret)
           /\ call.args[1] = ShamsiDateString(1402, 10, 28)
                  => call.ret = <<50, 48, 50, 52, 45, 48, 49, 45, 49, 55>>

\* C12: getShamsiMonthDays(month, year) returns null for every month outside
\* 1..12 and a number, never null, for every month inside 1..12.
C12_InvalidMonthNull ==
    call.op = "getShamsiMonthDays"
        => /\ call.args[1] \notin 1..12 => call.ret = Null
           /\ call.args[1] \in 1..12 => (call.ret.kind = "number" /\ call.ret # Null)

\* C12 happens: a month above 12 and a month below 1 were asked, and null
\* came back
C12_Witness ==
    /\ call.op = "getShamsiMonthDays"
    /\ call.args[1] > 12 \/ call.args[1] < 1
    /\ call.ret = Null

\* the tokens YYYY, MM, DD, HH, mm, ss
SixTokens ==
    << <<89, 89, 89, 89>>, <<77, 77>>, <<68, 68>>,
       <<72, 72>>, <<109, 109>>, <<115, 115>> >>

\* the year and the zero-padded month, day, hour, minute and second of the
\* arguments <<pattern, year, month, day, hour, minute, second>>
SixValues(args) ==
    LET two(n) == IF n < 10 THEN <<48>> \o NumStr(n) ELSE NumStr(n)
    IN  <<NumStr(args[2]), two(args[3]), two(args[4]), two(args[5]), two(args[6]),
          two(args[7])>>

\* the pattern from position i on, in which the token k that starts at firsts[k]
\* is replaced by values[k] and every other character is kept
RECURSIVE Substituted(_, _, _, _)
Substituted(pattern, i, firsts, values) ==
    IF i > Len(pattern) THEN <<>>
    ELSE IF \E k \in 1..6 : firsts[k] = i
         THEN LET k == CHOOSE k \in 1..6 : firsts[k] = i
              IN  values[k] \o Substituted(pattern, i + Len(SixTokens[k]), firsts, values)
         ELSE <<pattern[i]>> \o Substituted(pattern, i + 1, firsts, values)

\* the pattern with the first occurrence of each of the six tokens replaced
FirstOccurrencesReplaced(args) ==
    Substituted(args[1], 1, [k \in 1..6 |-> FirstIndex(args[1], SixTokens[k])],
                SixValues(args))

PlainPattern(pattern) ==
    /\ FirstIndex(pattern, <<77, 111, 110, 116, 104>>) = 0
    /\ FirstIndex(pattern, <<87, 101, 101, 107, 100, 97, 121>>) = 0
    /\ \A i \in 1..Len(pattern) : ~(pattern[i] >= 1776 /\ pattern[i] <= 1785)

C14_LatinDigitsIdempotent ==
    call.op = "convertToLatinDigits"
        => LET str == call.args[1]
               persian == 1776..1785
           IN  /\ Len(call.ret) = Len(str)
               /\ \A i \in 1..Len(str) :
                      /\ str[i] \in persian
                             => (call.ret[i] = str[i] - 1728 /\ call.ret[i] \in 48..57)
                      /\ str[i] \notin persian => call.ret[i] = str[i]
                      /\ call.ret[i] \notin persian
               /\ prev.op = "convertToLatinDigits" => call.ret = prev.ret

\* C14 happens: a string with two Persian digits was transliterated, the result
\* differs from it, and transliterating the result again returned the result
C14_Witness ==
    /\ call.op = "convertToLatinDigits"
    /\ prev.op = "convertToLatinDigits"
    /\ Cardinality({i \in 1..Len(prev.args[1]) : prev.args[1][i] \in 1776..1785}) >= 2
    /\ prev.ret # prev.args[1]
    /\ call.args[1] = prev.ret
    /\ call.ret = prev.ret

\* C15: convertShamsiToGregorian is strictly increasing on valid Persian
\* dates: the day count computed for a valid date is below the day count
\* computed for the valid date that follows it (the first day of the next year
\* after the last day of a year), so the two are not given the same Gregorian
\* date.
C15_StrictlyIncreasing ==
    (call.op = "convertShamsiToGregorian" /\ prev.op = "convertShamsiToGregorian")
        => /\ ShamsiTotalDays(prev.args[1], prev.args[2], prev.args[3])
                  < ShamsiTotalDays(call.args[1], call.args[2], call.args[3])
           /\ prev.ret # call.ret

====
